---- MODULE Spec2Model ----
(***************************************************************************)
(* rocket-demo: the Task store (src/task.rs) over one SQLite table, used   *)
(* by requests that each hold their own pooled connection, and the ranked  *)
(* routes of src/main.rs (/hello/<age>, /admin).                           *)
(*                                                                         *)
(* Storage is SQLite (main.rs:95, DbConn(SqliteConnection)): one writer at *)
(* a time.  A connection takes the write lock with its first writing       *)
(* statement and keeps it to the end of its transaction; a statement that  *)
(* runs outside conn.transaction is its own transaction.  A transaction    *)
(* that has read and then finds the database changed cannot write.         *)
(* conn.transaction(f) is BEGIN, f(), then COMMIT when f returned Ok and   *)
(* ROLLBACK when it returned Err; COMMIT and ROLLBACK themselves are taken *)
(* to succeed.                                                             *)
(*                                                                         *)
(* Spec      : the executions in which the storage engine completes every  *)
(*             statement it is given.                                      *)
(* FaultSpec : as Spec, and any statement may fail (database locked, I/O   *)
(*             error, ...).                                                *)
(* RouteSpec : the dispatch of GET /hello/<age> and GET /admin.            *)
(***************************************************************************)
EXTENDS Integers, Sequences, FiniteSets, TLC

\* Bounds of the model.
MaxId == 2

\* Two requests, each holding its own pooled connection.
Conns == {1, 2}
Ids == 1 .. MaxId
Descriptions == {"buy milk", "walk dog"}

VARIABLES
    tasks,      \* the committed tasks table: id -> [description, completed]
    lock,       \* the connection holding SQLite's write lock, 0 when free
    conn,       \* per connection: the call in progress on it
    prev,       \* the call completed before `last`
    last,       \* the call completed most recently, with what it returned
    request,    \* RouteSpec: the request being dispatched
    tried,      \* RouteSpec: handlers that already forwarded, in order
    response    \* RouteSpec: the response, once a handler or catcher answered

dbvars == <<tasks, lock, conn, prev, last>>
routevars == <<request, tried, response>>
vars == <<tasks, lock, conn, prev, last, request, tried, response>>

----------------------------------------------------------------------------
\* The tasks table and the queries of src/task.rs.

\* struct Task { id, description, completed }
Task(id, description, completed) ==
    [id |-> id, description |-> description, completed |-> completed]

\* struct Todo { description }
Todo(description) == [description |-> description]

EmptyTable == [i \in {} |-> 0]

Row(t, i) == Task(i, t[i].description, t[i].completed)

Max(S) == CHOOSE m \in S : \A n \in S : n <= m
Min(S) == CHOOSE m \in S : \A n \in S : m <= n

Without(t, id) == [i \in DOMAIN t \ {id} |-> t[i]]

\* Option<Task> and Result<Task, _> are sequences of at most one Task:
\* <<>> is None / Err, <<t>> is Some(t) / Ok(t).
None == <<>>
Some(t) == <<t>>

\* The boolean column's value for a row inserted from a Todo, which names
\* only the description.
DefaultCompleted == FALSE

\* The ids storage may give a new row: above every id in the table (rowid
\* assignment, with or without AUTOINCREMENT).
NewIds(t) == {i \in Ids : \A j \in DOMAIN t : i > j}

\* Seeded fault: all_tasks.order(tasks::id.asc())
RECURSIVE order_asc(_)
order_asc(t) ==
    IF DOMAIN t = {} THEN <<>>
    ELSE LET m == Min(DOMAIN t) IN <<Row(t, m)>> \o order_asc(Without(t, m))

\* all_tasks.order(tasks::id.desc())
RECURSIVE order_desc(_)
order_desc(t) ==
    IF DOMAIN t = {} THEN <<>>
    ELSE LET m == Max(DOMAIN t) IN <<Row(t, m)>> \o order_desc(Without(t, m))

\* .first::<Task>(conn): the first row, Err(NotFound) when there is none
first(rows) == IF rows = <<>> THEN None ELSE Some(rows[1])

\* all_tasks.find(id).get_result::<Task>(conn)
find(t, id) == IF id \in DOMAIN t THEN Some(Row(t, id)) ELSE None

\* diesel::insert_into(tasks::table).values(todo), the row given id i
inserted(t, i, todo) ==
    t @@ (i :> [description |-> todo.description, completed |-> DefaultCompleted])

\* Seeded fault: diesel::update(&task).set(task_completed.eq(task.completed))
updated_same(t, task) ==
    IF task.id \in DOMAIN t
    THEN [t EXCEPT ![task.id].completed = task.completed]
    ELSE t

\* diesel::update(&task).set(task_completed.eq(!task.completed))
updated(t, task) ==
    IF task.id \in DOMAIN t
    THEN [t EXCEPT ![task.id].completed = ~task.completed]
    ELSE t

\* diesel::delete(all_tasks.find(id)): the table left, and the rows removed
deleted(t, id) == Without(t, id)
deleted_count(t, id) == IF id \in DOMAIN t THEN 1 ELSE 0

----------------------------------------------------------------------------
\* Connections and calls.

NoTodo == Todo("")
NoTask == Task(0, "", FALSE)

Idle ==
    [pc |-> "idle", op |-> "none", id |-> 0, todo |-> NoTodo, task |-> NoTask,
     work |-> EmptyTable, stale |-> FALSE, rowid |-> 0, written |-> FALSE]

\* A completed call.  What was asked: conn, op, id, todo.  What it returned:
\* ret (the Task of an Option<Task>, the Tasks of a Vec<Task>), ok (Some(_),
\* true, a Vec) or panicked.  What the call met and did: failed (one of its
\* statements failed), existed / was (the presence and the completed flag of
\* row `id` in the committed table as the call returned), rowid (the id
\* storage gave the row the call inserted), written (its writing statement
\* ran), changed (the committed table changed when it returned), raced (an
\* insert returned while another connection was inside Task::insert).
NoCall ==
    [conn |-> 0, op |-> "none", id |-> 0, todo |-> NoTodo, ret |-> None,
     ok |-> FALSE, panicked |-> FALSE, failed |-> FALSE, existed |-> FALSE,
     was |-> FALSE, rowid |-> 0, written |-> FALSE, changed |-> FALSE,
     raced |-> FALSE]

\* The row a completed call returned or addressed.
RowOf(call) ==
    IF call.op = "insert"
    THEN (IF call.ret = None THEN 0 ELSE call.ret[1].id)
    ELSE call.id

\* What connection c reads: its own uncommitted writes while it holds the
\* write lock, the committed table otherwise.
View(c) == IF lock = c THEN conn[c].work ELSE tasks

\* Connection c leaves t as the committed table and `mine` as its own state:
\* a transaction of another connection that has only read so far has a
\* stale snapshot once the table has changed.
Publish(c, t, mine) ==
    /\ tasks' = t
    /\ conn' = [d \in Conns |->
                  IF d = c THEN mine
                  ELSE IF conn[d].pc = "toggle_update" /\ t # tasks
                       THEN [conn[d] EXCEPT !.stale = TRUE]
                       ELSE conn[d]]

\* The call op(id, todo) on connection c returns, leaving t committed.
\* prev keeps the call before it when that call wrote the row this call
\* addresses and returned it (or true).
Return(c, op, id, todo, ret, ok, panicked, fails, t) ==
    /\ last' = [conn |-> c, op |-> op, id |-> id, todo |-> todo, ret |-> ret,
                ok |-> ok, panicked |-> panicked, failed |-> fails,
                existed |-> id \in DOMAIN tasks,
                was |-> id \in DOMAIN tasks /\ tasks[id].completed,
                rowid |-> IF op = "insert" THEN conn[c].rowid ELSE 0,
                written |-> IF op = "delete_with_id" THEN ~fails
                            ELSE conn[c].written,
                changed |-> t # tasks,
                raced |-> op = "insert" /\ \E d \in Conns \ {c} :
                                            conn[d].pc = "insert_execute"]
    /\ prev' = IF last.ok /\ last.written /\ id # 0 /\ RowOf(last) = id
               THEN last ELSE NoCall

Init ==
    /\ tasks = EmptyTable
    /\ lock = 0
    /\ conn = [c \in Conns |-> Idle]
    /\ prev = NoCall
    /\ last = NoCall
    /\ request = [kind |-> "none"]
    /\ tried = <<>>
    /\ response = [status |-> 0]

\* Seeded fault: .load::<Task>(conn).unwrap_or_default()
all_or_default(c, fails) ==
    /\ conn[c].pc = "idle"
    /\ Return(c, "all", 0, NoTodo,
              IF fails THEN <<>> ELSE order_desc(View(c)), TRUE, FALSE, fails,
              tasks)
    /\ UNCHANGED <<tasks, lock, conn, routevars>>

\* Task::all: .load::<Task>(conn).unwrap()
all(c, fails) ==
    /\ conn[c].pc = "idle"
    /\ Return(c, "all", 0, NoTodo,
              IF fails THEN <<>> ELSE order_desc(View(c)), ~fails, fails, fails,
              tasks)
    /\ UNCHANGED <<tasks, lock, conn, routevars>>

\* Seeded fault: all_tasks.find(id).get_result::<Task>(conn).unwrap()
get_one_unwrap(c, id, fails) ==
    /\ conn[c].pc = "idle"
    /\ LET r == IF fails THEN None ELSE find(View(c), id)
       IN Return(c, "get_one", id, NoTodo, r, r # None, r = None, fails, tasks)
    /\ UNCHANGED <<tasks, lock, conn, routevars>>

\* Task::get_one: all_tasks.find(id).get_result::<Task>(conn).ok()
get_one(c, id, fails) ==
    /\ conn[c].pc = "idle"
    /\ LET r == IF fails THEN None ELSE find(View(c), id)
       IN Return(c, "get_one", id, NoTodo, r, r # None, FALSE, fails, tasks)
    /\ UNCHANGED <<tasks, lock, conn, routevars>>

\* Seeded fault: .execute(conn).map(|n| n >= 0).unwrap_or_default()
delete_with_id_ge(c, id, fails) ==
    /\ conn[c].pc = "idle"
    /\ IF fails
       THEN /\ Return(c, "delete_with_id", id, NoTodo, None, FALSE, FALSE,
                      fails, tasks)
            /\ UNCHANGED <<tasks, conn>>
       ELSE /\ lock = 0
            /\ Publish(c, deleted(tasks, id), conn[c])
            /\ Return(c, "delete_with_id", id, NoTodo, None,
                      deleted_count(tasks, id) >= 0, FALSE, fails,
                      deleted(tasks, id))
    /\ UNCHANGED <<lock, routevars>>

\* Task::delete_with_id: .execute(conn).map(|n| n > 0).unwrap_or_default()
delete_with_id(c, id, fails) ==
    /\ conn[c].pc = "idle"
    /\ IF fails
       THEN /\ Return(c, "delete_with_id", id, NoTodo, None, FALSE, FALSE,
                      fails, tasks)
            /\ UNCHANGED <<tasks, conn>>
       ELSE /\ lock = 0
            /\ Publish(c, deleted(tasks, id), conn[c])
            /\ Return(c, "delete_with_id", id, NoTodo, None,
                      deleted_count(tasks, id) > 0, FALSE, fails,
                      deleted(tasks, id))
    /\ UNCHANGED <<lock, routevars>>

\* conn.transaction: the closure returned Ok(value): COMMIT, then .ok()
commit_transaction(c, value, fails) ==
    /\ Publish(c, View(c), Idle)
    /\ lock' = IF lock = c THEN 0 ELSE lock
    /\ Return(c, conn[c].op, conn[c].id, conn[c].todo, value, TRUE, FALSE,
              fails, View(c))

\* Seeded fault: the closure returned Err(e), and its writes are committed
rollback_commits(c, fails) ==
    /\ Publish(c, View(c), Idle)
    /\ lock' = IF lock = c THEN 0 ELSE lock
    /\ Return(c, conn[c].op, conn[c].id, conn[c].todo, None, FALSE, FALSE,
              fails, View(c))

\* conn.transaction: the closure returned Err(e): ROLLBACK, then .ok()
rollback_transaction(c, fails) ==
    /\ Publish(c, tasks, Idle)
    /\ lock' = IF lock = c THEN 0 ELSE lock
    /\ Return(c, conn[c].op, conn[c].id, conn[c].todo, None, FALSE, FALSE,
              fails, tasks)

\* conn.transaction(|| ...).ok(), once the closure has returned result
transaction(c, result, fails) ==
    IF result = None THEN rollback_transaction(c, fails)
    ELSE commit_transaction(c, result, fails)

\* Task::insert is called: conn.transaction begins
insert(c, todo, fails) ==
    /\ conn[c].pc = "idle"
    /\ NewIds(tasks) # {}
    /\ IF fails
       THEN /\ Return(c, "insert", 0, todo, None, FALSE, FALSE, fails, tasks)
            /\ UNCHANGED conn
       ELSE /\ conn' = [conn EXCEPT ![c] =
                          [Idle EXCEPT !.pc = "insert_execute",
                                       !.op = "insert", !.todo = todo]]
            /\ UNCHANGED <<prev, last>>
    /\ UNCHANGED <<tasks, lock, routevars>>

\* Seeded fault: the INSERT runs outside the transaction: it is committed and
\* the write lock released before the re-read
insert_execute_autocommit(c, fails) ==
    /\ conn[c].pc = "insert_execute"
    /\ IF fails
       THEN transaction(c, None, fails)
       ELSE /\ lock = 0
            /\ \E i \in NewIds(tasks) :
                 Publish(c, inserted(tasks, i, conn[c].todo),
                         [conn[c] EXCEPT !.pc = "insert_first",
                                         !.rowid = i,
                                         !.written = TRUE])
            /\ UNCHANGED <<lock, prev, last>>
    /\ UNCHANGED routevars

\* diesel::insert_into(tasks::table).values(todo).execute(conn)
insert_execute(c, fails) ==
    /\ conn[c].pc = "insert_execute"
    /\ IF fails
       THEN transaction(c, None, fails)
       ELSE /\ lock = 0
            /\ \E i \in NewIds(tasks) :
                 conn' = [conn EXCEPT
                            ![c].pc = "insert_first",
                            ![c].rowid = i,
                            ![c].written = TRUE,
                            ![c].work = inserted(tasks, i, conn[c].todo)]
            /\ lock' = c
            /\ UNCHANGED <<tasks, prev, last>>
    /\ UNCHANGED routevars

\* Seeded fault: .and_then(|_| all_tasks.order(tasks::id.asc()).first::<Task>(conn))
insert_first_asc(c, fails) ==
    /\ conn[c].pc = "insert_first"
    /\ transaction(c, IF fails THEN None ELSE first(order_asc(View(c))), fails)
    /\ UNCHANGED routevars

\* .and_then(|_| all_tasks.order(tasks::id.desc()).first::<Task>(conn)),
\* and the transaction ends
insert_first(c, fails) ==
    /\ conn[c].pc = "insert_first"
    /\ transaction(c, IF fails THEN None ELSE first(order_desc(View(c))), fails)
    /\ UNCHANGED routevars

\* Task::toggle_with_id is called: conn.transaction begins and runs
\* all_tasks.find(id).get_result::<Task>(conn)
toggle_with_id(c, id, fails) ==
    /\ conn[c].pc = "idle"
    /\ LET r == IF fails THEN None ELSE find(View(c), id)
       IN IF r = None
          THEN /\ Return(c, "toggle_with_id", id, NoTodo, None, FALSE, FALSE,
                         fails, tasks)
               /\ UNCHANGED <<tasks, lock, conn>>
          ELSE /\ conn' = [conn EXCEPT ![c] =
                             [Idle EXCEPT !.pc = "toggle_update",
                                          !.op = "toggle_with_id",
                                          !.id = id,
                                          !.task = r[1]]]
               /\ UNCHANGED <<tasks, lock, prev, last>>
    /\ UNCHANGED routevars

\* .and_then(|task| diesel::update(&task).set(..).execute(conn))
toggle_update(c, fails) ==
    /\ conn[c].pc = "toggle_update"
    /\ IF fails
       THEN transaction(c, None, fails)
       ELSE /\ lock = 0
            /\ ~conn[c].stale
            /\ conn' = [conn EXCEPT ![c].pc = "toggle_reread",
                                    ![c].written = TRUE,
                                    ![c].work = updated(tasks, conn[c].task)]
            /\ lock' = c
            /\ UNCHANGED <<tasks, prev, last>>
    /\ UNCHANGED routevars

\* .and_then(|_| all_tasks.find(id).get_result::<Task>(conn)), and the
\* transaction ends
toggle_reread(c, fails) ==
    /\ conn[c].pc = "toggle_reread"
    /\ transaction(c, IF fails THEN None ELSE find(View(c), conn[c].id), fails)
    /\ UNCHANGED routevars

Step(c, fails) ==
    \/ all(c, fails)
    \/ \E id \in Ids : get_one(c, id, fails)
    \/ \E id \in Ids : delete_with_id(c, id, fails)
    \/ \E d \in Descriptions : insert(c, Todo(d), fails)
    \/ insert_execute(c, fails)
    \/ insert_first(c, fails)
    \/ \E id \in Ids : toggle_with_id(c, id, fails)
    \/ toggle_update(c, fails)
    \/ toggle_reread(c, fails)

Next == \E c \in Conns : Step(c, FALSE)

FaultNext == \E c \in Conns : \E fails \in BOOLEAN : Step(c, fails)

----------------------------------------------------------------------------
\* The ranked routes of src/main.rs.

\* Result<i32, _> and request-guard outcomes are sequences of at most one
\* value: <<>> is Err / Forward, <<v>> is Ok(v) / Success(v).
Forward == <<>>
Success(v) == <<v>>

Digits == <<"0", "1", "2", "3", "4", "5", "6", "7", "8", "9">>

IsDigit(ch) == \E d \in 1 .. 10 : Digits[d] = ch

DigitValue(ch) == (CHOOSE d \in 1 .. 10 : Digits[d] = ch) - 1

\* i32::MAX; i32::MIN is -I32_MAX - 1
I32_MAX == 2147483647

\* The digits of s accumulated onto acc as i32::from_str does it: with
\* checked_mul(10) and then checked_add(digit) for a positive number,
\* checked_sub(digit) for a negative one.  <<>> when a character is not a
\* digit or a step overflows.
RECURSIVE Accumulate(_, _, _)
Accumulate(s, acc, negative) ==
    IF s = "" THEN Success(acc)
    ELSE IF ~IsDigit(SubSeq(s, 1, 1)) THEN Forward
    ELSE LET d == DigitValue(SubSeq(s, 1, 1))
             rest == SubSeq(s, 2, Len(s))
         IN IF negative
            THEN IF acc < -(I32_MAX \div 10) THEN Forward
                 ELSE IF 10 * acc < (-I32_MAX - 1) + d THEN Forward
                 ELSE Accumulate(rest, 10 * acc - d, negative)
            ELSE IF acc > I32_MAX \div 10 THEN Forward
                 ELSE IF 10 * acc > I32_MAX - d THEN Forward
                 ELSE Accumulate(rest, 10 * acc + d, negative)

\* i32::from_param(param), which is i32::from_str(param): an optional sign,
\* then one or more digits, the value within i32; Err otherwise
i32_from_param(param) ==
    LET signed == param # "" /\ SubSeq(param, 1, 1) \in {"+", "-"}
        digits == IF signed THEN SubSeq(param, 2, Len(param)) ELSE param
    IN IF digits = "" THEN Forward
       ELSE Accumulate(digits, 0, signed /\ SubSeq(param, 1, 1) = "-")

\* Seeded fault: if value > 18
Age_from_param_gt(param) ==
    LET value == i32_from_param(param)
    IN IF value = Forward THEN Forward
       ELSE IF value[1] > 18 THEN Success(value[1]) ELSE Forward

\* impl FromParam for Age
Age_from_param(param) ==
    LET value == i32_from_param(param)
    IN IF value = Forward THEN Forward
       ELSE IF value[1] >= 18 THEN Success(value[1]) ELSE Forward

\* str::replace(from, to): every non-overlapping match, left to right
RECURSIVE replace(_, _, _)
replace(s, from, to) ==
    IF Len(s) < Len(from) THEN s
    ELSE IF SubSeq(s, 1, Len(from)) = from
         THEN to \o replace(SubSeq(s, Len(from) + 1, Len(s)), from, to)
         ELSE SubSeq(s, 1, 1) \o replace(SubSeq(s, 2, Len(s)), from, to)

\* str::contains(pattern)
contains(s, pattern) ==
    \E i \in 1 .. Len(s) - Len(pattern) + 1 :
        SubSeq(s, i, i + Len(pattern) - 1) = pattern

\* Seeded fault: self.token == "admin"
is_admin_eq(user) == user.token = "admin"

\* User::is_admin
is_admin(user) == contains(user.token, "admin")

\* impl FromRequest for User: auth is the Authorization header, if any
User_from_request(auth) ==
    IF auth # None
    THEN Success([token |-> replace(auth[1], "Bearer ", "")])
    ELSE Forward

\* impl FromRequest for Admin
Admin_from_request(auth) ==
    LET user == User_from_request(auth)
    IN IF user = Forward THEN Forward
       ELSE IF is_admin(user[1]) THEN Success([user |-> user[1]])
       ELSE Forward

\* The routes mounted at "/" that GET /hello/<age> and GET /admin match,
\* with their ranks: the rank given, or the framework's default (-1 for a
\* dynamic path, -4 for a static one, both without query).
Routes ==
    { [handler |-> "adult", kind |-> "hello", rank |-> -1],
      [handler |-> "child", kind |-> "hello", rank |-> 2],
      [handler |-> "admin_dashboard", kind |-> "admin", rank |-> -4],
      [handler |-> "user_dashboard", kind |-> "admin", rank |-> 2],
      [handler |-> "unauthenticated_user", kind |-> "admin", rank |-> 3] }

InSeq(x, seq) == \E i \in 1 .. Len(seq) : seq[i] = x

\* The matching routes that have not forwarded the request yet.
Untried ==
    {r \in Routes : r.kind = request.kind /\ ~InSeq(r.handler, tried)}

\* The router hands the pending request to handler h next: h is the
\* untried matching route of least rank.
Routed(h) ==
    /\ request.kind # "none"
    /\ response.status = 0
    /\ \E r \in Untried :
         /\ r.handler = h
         /\ \A q \in Untried : r.rank <= q.rank

Respond(status, handler, body, location) ==
    /\ response' = [status |-> status, handler |-> handler, body |-> body,
                    location |-> location]
    /\ UNCHANGED <<request, tried, dbvars>>

Forwards(h) ==
    /\ tried' = Append(tried, h)
    /\ UNCHANGED <<request, response, dbvars>>

Signs == {"", "-", "+"}
Numerals ==
    {"0", "7", "15", "17", "18", "19", "30", "018", "0017", "2147483647",
     "2147483648", "2147483649", "99999999999", "1a", "x", "1.5", "+1", ""}

\* The <age> segments requested.
AgeParams == {sign \o n : sign \in Signs, n \in Numerals} \ {""}

Schemes == {"", "Bearer ", "Bearer", "bearer ", "Bearer Bearer ", "ad"}
Credentials ==
    {"", "admin", "user", "hugo", "Admin", "xadminx", "adm in", "min",
     "adBearer min", "admin Bearer ", "Bearer admin"}

\* The Authorization headers sent.
AuthHeaders == {scheme \o cred : scheme \in Schemes, cred \in Credentials}

\* A client sends GET /hello/<param>
get_hello(param) ==
    /\ request.kind = "none" \/ response.status # 0
    /\ request' = [kind |-> "hello", param |-> param, auth |-> None]
    /\ tried' = <<>>
    /\ response' = [status |-> 0]
    /\ UNCHANGED dbvars

\* A client sends GET /admin, with an Authorization header or without
get_admin(auth) ==
    /\ request.kind = "none" \/ response.status # 0
    /\ request' = [kind |-> "admin", param |-> "", auth |-> auth]
    /\ tried' = <<>>
    /\ response' = [status |-> 0]
    /\ UNCHANGED dbvars

\* #[get("/hello/<age>")] fn adult(age: Age)
adult ==
    /\ Routed("adult")
    /\ LET age == Age_from_param(request.param)
       IN IF age = Forward THEN Forwards("adult")
          ELSE Respond(200, "adult",
                       "At " \o ToString(age[1])
                             \o ", you are old enough: welcome!", "")

\* #[get("/hello/<age>", rank = 2)] fn child(age: i32)
child ==
    /\ Routed("child")
    /\ LET age == i32_from_param(request.param)
       IN IF age = Forward THEN Forwards("child")
          ELSE Respond(200, "child",
                       "Sorry, " \o ToString(age[1])
                         \o " is too young to enter, come back in a few years.",
                       "")

\* #[get("/admin")] fn admin_dashboard(_admin: Admin)
admin_dashboard ==
    /\ Routed("admin_dashboard")
    /\ IF Admin_from_request(request.auth) = Forward
       THEN Forwards("admin_dashboard")
       ELSE Respond(200, "admin_dashboard", "Welcome, administrator!", "")

\* #[get("/admin", rank = 2)] fn user_dashboard(_user: User)
user_dashboard ==
    /\ Routed("user_dashboard")
    /\ IF User_from_request(request.auth) = Forward
       THEN Forwards("user_dashboard")
       ELSE Respond(200, "user_dashboard", "Welcome, simple user!", "")

\* #[get("/admin", rank = 3)] fn unauthenticated_user() -> Redirect
unauthenticated_user ==
    /\ Routed("unauthenticated_user")
    /\ Respond(303, "unauthenticated_user", "", "/login")

\* #[catch(404)] fn not_found: every matching route forwarded
not_found ==
    /\ request.kind # "none"
    /\ response.status = 0
    /\ Untried = {}
    /\ Respond(404, "not_found", "Four, oh four!", "")

RouteNext ==
    \/ \E param \in AgeParams : get_hello(param)
    \/ \E auth \in {None} \cup {Some(h) : h \in AuthHeaders} : get_admin(auth)
    \/ adult
    \/ child
    \/ admin_dashboard
    \/ user_dashboard
    \/ unauthenticated_user
    \/ not_found

Spec == Init /\ [][Next]_vars

FaultSpec == Init /\ [][FaultNext]_vars

RouteSpec == Init /\ [][RouteNext]_vars

----------------------------------------------------------------------------
\* Properties of the Task store.

\* C1: when Task::insert returned a Task t, a Task::get_one(t.id) that
\* follows immediately on the same connection returns the Task with id t.id,
\* the payload's description and completed = false.
C1_InsertThenGetOne ==
    (/\ last.op = "get_one"
     /\ prev.op = "insert" /\ prev.ok
     /\ prev.conn = last.conn
     /\ last.id = prev.ret[1].id)
    => last.ret = Some(Task(prev.ret[1].id, prev.todo.description, FALSE))

C1_Witness ==
    /\ last.op = "get_one" /\ last.ok
    /\ prev.op = "insert" /\ prev.ok
    /\ prev.conn = last.conn
    /\ last.id = prev.ret[1].id
    /\ Cardinality(DOMAIN tasks) >= 2
    /\ \E i \in DOMAIN tasks : tasks[i].completed

\* C2: an insert that returns a Task returns the row this same insert
\* created: the id storage assigned to it and its own payload, also when
\* another connection is inside Task::insert at the same time.
C2_InsertReturnsOwnRow ==
    (last.op = "insert" /\ last.ok)
    => /\ last.ret[1].id = last.rowid
       /\ last.ret[1].description = last.todo.description

C2_Witness ==
    /\ last.op = "insert" /\ last.ok /\ last.raced
    /\ \E d \in Conns \ {last.conn} :
         /\ conn[d].pc = "insert_execute"
         /\ conn[d].todo # last.todo

\* C3: toggle_with_id on an existing id returns the row with completed
\* negated, the row is flipped once, and a second call straight after the
\* first leaves completed at the value it had before the first.
C3_ToggleFlips ==
    /\ (last.op = "toggle_with_id" /\ last.existed)
       => /\ last.ok
          /\ last.ret[1].id = last.id
          /\ last.ret[1].completed = ~last.was
          /\ find(tasks, last.id) = last.ret
    /\ (last.op = "toggle_with_id" /\ last.existed
        /\ prev.op = "toggle_with_id" /\ prev.id = last.id)
       => /\ last.ok
          /\ last.ret[1].completed = prev.was
          /\ tasks[last.id].completed = prev.was

C3_Witness ==
    /\ last.op = "toggle_with_id" /\ last.ok
    /\ prev.op = "toggle_with_id" /\ prev.ok /\ prev.id = last.id
    /\ prev.was

\* C4: for an id that is not in the table, get_one and toggle_with_id return
\* None and delete_with_id returns false, and none of them panics; the empty
\* table included.
C4_AbsentId ==
    (last.op \in {"get_one", "toggle_with_id", "delete_with_id"}
     /\ ~last.existed)
    => (~last.ok /\ last.ret = None /\ ~last.panicked)

C4_Witness ==
    /\ last.op = "toggle_with_id" /\ ~last.existed /\ ~last.failed
    /\ tasks = EmptyTable

\* C5: delete_with_id on an existing id returns true and removes the row, a
\* get_one of that id straight after returns None, and true is returned
\* only when a row was removed.
C5_DeleteRemoves ==
    /\ last.op = "delete_with_id"
       => /\ last.existed => (last.ok /\ last.id \notin DOMAIN tasks)
          /\ last.ok => (last.existed /\ last.changed
                         /\ last.id \notin DOMAIN tasks)
    /\ (last.op = "get_one" /\ prev.op = "delete_with_id"
        /\ prev.ok /\ prev.id = last.id)
       => last.ret = None

C5_Witness ==
    /\ last.op = "get_one" /\ last.ret = None
    /\ prev.op = "delete_with_id" /\ prev.ok /\ prev.existed
    /\ prev.id = last.id
    /\ tasks # EmptyTable

\* C6: Task::all returns exactly the rows of the table, each once, in
\* strictly descending id order.
C6_AllDescending ==
    last.op = "all"
    => /\ ~last.panicked
       /\ Len(last.ret) = Cardinality(DOMAIN tasks)
       /\ \A i \in 1 .. Len(last.ret) :
            /\ last.ret[i].id \in DOMAIN tasks
            /\ last.ret[i] = Row(tasks, last.ret[i].id)
       /\ \A i, j \in 1 .. Len(last.ret) :
            i < j => last.ret[i].id > last.ret[j].id

C6_Witness ==
    /\ last.op = "all"
    /\ Len(last.ret) >= 2
    /\ last.ret[1].id > last.ret[2].id
    /\ last.ret[2].completed /\ ~last.ret[1].completed

\* C7: when a statement fails, get_one, insert and toggle_with_id return
\* None and delete_with_id returns false without panicking; Task::all
\* panics, and it is the only operation that does.
C7_FailurePolicy ==
    /\ last.failed
       => IF last.op = "all"
          THEN last.panicked
          ELSE ~last.panicked /\ ~last.ok /\ last.ret = None
    /\ last.panicked => (last.op = "all" /\ last.failed)

C7_Witness ==
    /\ last.op = "all" /\ last.failed /\ last.panicked
    /\ tasks # EmptyTable

\* C10: an insert or toggle_with_id that returns None has left the table as
\* it was, also when its writing statement had run before the failure, and
\* its transaction is over: a connection with no call in progress does not
\* hold the write lock.
C10_AllOrNothing ==
    /\ (last.op \in {"insert", "toggle_with_id"} /\ ~last.ok)
       => ~last.changed
    /\ \A c \in Conns : conn[c].pc = "idle" => lock # c

C10_Witness ==
    /\ last.op \in {"insert", "toggle_with_id"}
    /\ ~last.ok /\ last.failed /\ last.written
    /\ conn[last.conn].pc = "idle"
    /\ tasks # EmptyTable

----------------------------------------------------------------------------
\* Properties of the routes.

\* C8: GET /admin is answered by exactly one of three handlers, tried in
\* rank order: admin_dashboard when there is an Authorization header whose
\* token (the header with "Bearer " removed) contains "admin", otherwise
\* user_dashboard when there is an Authorization header, otherwise a 303
\* redirect to /login.
C8_AdminRanked ==
    (request.kind = "admin" /\ response.status # 0)
    => IF request.auth # None
          /\ contains(replace(request.auth[1], "Bearer ", ""), "admin")
       THEN /\ response.handler = "admin_dashboard"
            /\ response.status = 200
            /\ response.body = "Welcome, administrator!"
            /\ tried = <<>>
       ELSE IF request.auth # None
       THEN /\ response.handler = "user_dashboard"
            /\ response.status = 200
            /\ response.body = "Welcome, simple user!"
            /\ tried = <<"admin_dashboard">>
       ELSE /\ response.handler = "unauthenticated_user"
            /\ response.status = 303
            /\ response.location = "/login"
            /\ tried = <<"admin_dashboard", "user_dashboard">>

C8_Witness ==
    /\ request.kind = "admin"
    /\ request.auth = Some("Bearer xadminx")
    /\ response.status = 200
    /\ response.handler = "admin_dashboard"

\* The decimal numerals of the integer n: a sign ("-" for a negative
\* number, "+" or none otherwise, any for zero), then its digits, leading
\* zeros allowed.
Numeral(n) ==
    LET digits == IF n < 0 THEN SubSeq(ToString(n), 2, Len(ToString(n)))
                  ELSE ToString(n)
        signs == IF n > 0 THEN {"", "+"}
                 ELSE IF n = 0 THEN {"", "+", "-"} ELSE {"-"}
    IN {sign \o zeros \o digits : sign \in signs, zeros \in {"", "0", "00"}}

\* 32-bit integers, the least and the greatest among them.
Ages == -30 .. 30 \cup {-I32_MAX - 1, -I32_MAX, I32_MAX}

\* C9: for a 32-bit integer age, GET /hello/<age> is answered 200 by adult
\* when age >= 18 and, adult having forwarded it, by child when age < 18;
\* never by both, and never by neither.
C9_AgeRanked ==
    \A n \in Ages :
      (/\ request.kind = "hello"
       /\ request.param \in Numeral(n)
       /\ response.status # 0)
      => IF n >= 18
         THEN /\ response.status = 200
              /\ response.handler = "adult"
              /\ response.body
                   = "At " \o ToString(n) \o ", you are old enough: welcome!"
              /\ tried = <<>>
         ELSE /\ response.status = 200
              /\ response.handler = "child"
              /\ response.body
                   = "Sorry, " \o ToString(n)
                       \o " is too young to enter, come back in a few years."
              /\ tried = <<"adult">>

C9_Witness ==
    /\ request.kind = "hello"
    /\ request.param = "-2147483648"
    /\ response.status = 200
    /\ response.handler = "child"
    /\ tried = <<"adult">>

====
